---- MODULE Spec2Model ----
(***************************************************************************)
(* A model of SolariBoard (src/src/solari.js): the split-flap board's      *)
(* character buffer, its device-side copy, the dirty flag, the timing      *)
(* value and the element (index) buffer built at construction.             *)
(*                                                                         *)
(* Numbers.  A JavaScript number n of the character buffer is the integer  *)
(* n * Scale: the in-memory buffer is a grid of Scale points per 1.0.  A   *)
(* Float32Array keeps fewer digits than a JavaScript number: the device    *)
(* grid has one point every Fine points of the in-memory grid, and the     *)
(* conversion (Fround) rounds to the nearest device point.  Whole glyph    *)
(* indices lie on both grids.                                              *)
(*                                                                         *)
(* Characters are one-character strings; "eszett" stands for U+00DF, the   *)
(* one character of the alphabet whose upper case is two characters.       *)
(***************************************************************************)
EXTENDS Integers, Sequences, FiniteSets, TLC

\* ------------------------------------------------------------------ bounds

\* Device (Float32) grid points per 1.0.
Coarse == 20
\* In-memory grid points per device grid point.
Fine == 4
\* In-memory grid points per 1.0.
Scale == Coarse * Fine
\* The positive jitter draw, in in-memory grid points (below 0.1).
MaxJitter == 1

\* this.verticesPerChar
verticesPerChar == 16

\* ----------------------------------------------------------------- numbers

\* Math.floor of a buffer value, as a whole number.
Floor(v) == v \div Scale

\* A glyph index as a buffer value.
Whole(k) == k * Scale

\* Math.random() * 0.1: a value of [0, 0.1) on the in-memory grid, one that
\* Float32 holds (0) and one between two Float32 values (MaxJitter).
Jitters == {r \in {0, MaxJitter} : 10 * r < Scale}

\* new Float32Array([v])[0]: the nearest device grid point, ties to the
\* even one.
Fround(v) ==
    LET q == v \div Fine
        r == v % Fine
    IN  IF 2 * r < Fine THEN q * Fine
        ELSE IF 2 * r > Fine THEN (q + 1) * Fine
        ELSE IF q % 2 = 0 THEN q * Fine ELSE (q + 1) * Fine

\* new Float32Array(buffer)
Float32Array(buffer) == [k \in DOMAIN buffer |-> Fround(buffer[k])]

\* new Uint16Array([v])[0]
Uint16(v) == v % 65536

\* ----------------------------------------------------------------- strings

\* One character's upper case, as String.prototype.toUpperCase gives it.
UpperOf(ch) ==
    CASE ch = "a" -> <<"A">>
      [] ch = "b" -> <<"B">>
      [] ch = "eszett" -> <<"S", "S">>
      [] OTHER -> <<ch>>

RECURSIVE toUpperCase(_)
toUpperCase(s) ==
    IF s = <<>> THEN <<>> ELSE UpperOf(Head(s)) \o toUpperCase(Tail(s))

\* Array.prototype.indexOf on the glyph list, 0-based, -1 when absent.
indexOf(glyphs, ch) ==
    IF \E k \in 1..Len(glyphs) : glyphs[k] = ch
    THEN (CHOOSE k \in 1..Len(glyphs) :
              glyphs[k] = ch /\ \A m \in 1..(k - 1) : glyphs[m] # ch) - 1
    ELSE -1

\* ------------------------------------------------------------------ inputs

\* options: the glyph list (the last glyph is the blank) and the grid.
Boards ==
    { [chars |-> <<"A", "B", " ">>, rows |-> 1, cols |-> 1],
      [chars |-> <<"A", " ">>, rows |-> 1, cols |-> 2] }

\* The same, and a board of two rows.
MessageBoards ==
    Boards \cup { [chars |-> <<"A", " ">>, rows |-> 2, cols |-> 1] }

\* Messages that fit the board: r lines of c glyphs each.
BoardMessages(glyphs, r, c) ==
    [1..r -> [1..c -> {glyphs[k] : k \in 1..Len(glyphs)}]]

\* Messages of any shape: up to one line more than the board has rows, each
\* up to one character longer than the board has columns, of a lower-case
\* letter, a character that is no glyph and one that grows in upper case.
Alphabet == {"a", "#", "eszett"}
Strings(n) == UNION {[1..m -> Alphabet] : m \in 0..n}
AnyMessages(r, c) == UNION {[1..m -> Strings(c + 1)] : m \in 0..(r + 1)}

\* update's elapsed times.
ElapsedTimes == {0, 250}

\* Grids of the geometry builder: small ones, the largest whose vertices all
\* have 16-bit indices, and one grid row more.
GeometryGrids == {<<1, 1>>, <<2, 3>>, <<64, 64>>, <<65, 64>>}

\* ------------------------------------------------------------------- state

VARIABLES
    chars,             \* this.chars
    rows,              \* this.rows
    cols,              \* this.cols
    timing,            \* this.timing, in thousandths
    charBuffer,        \* this.charBuffer, 0-based
    charBufferDirty,   \* this.charBufferDirty
    charBufferObject,  \* the content of the device buffer this.charBufferObject
    lastCall,          \* history: the last operation called
    uploaded,          \* history: the last operation wrote the device character buffer
    lastMsg,           \* history: the argument of the last setMessage
    pending,           \* history: setMessage calls since the last update: 0, 1, 2 = several
    twinBuffer,        \* the charBuffer of a second board given the same messages
    quad               \* the geometry builder's output for one cell of one grid

vars == <<chars, rows, cols, timing, charBuffer, charBufferDirty,
          charBufferObject, lastCall, uploaded, lastMsg, pending,
          twinBuffer, quad>>

\* options.speed || 0.005, in thousandths per unit of elapsed time
speed == 5

\* ------------------------------------------------------------ construction

\* _buildBuffers, lines 104-109: every slot holds the blank glyph's index.
BlankBuffer(r, c, n) ==
    [k \in 0..(2 * verticesPerChar * c * r - 1) |-> Whole(n - 1)]

NoQuad == [rows |-> 0, cols |-> 0, cell |-> 0, index |-> 0,
           indices |-> <<>>, elements |-> <<>>]

\* The board after new SolariBoard(gl, options), options among `boards`.
InitOn(boards) ==
    /\ \E b \in boards : chars = b.chars /\ rows = b.rows /\ cols = b.cols
    /\ timing = 0
    /\ charBuffer = BlankBuffer(rows, cols, Len(chars))
    /\ charBufferDirty = FALSE
    /\ charBufferObject = Float32Array(charBuffer)
    /\ lastCall = "new"
    /\ uploaded = TRUE
    /\ lastMsg = <<>>
    /\ pending = 0
    /\ twinBuffer = BlankBuffer(rows, cols, Len(chars))
    /\ quad = NoQuad

Init == InitOn(Boards)

\* -------------------------------------------------------------- setMessage

\* Variants of fillCharBuffer's loop, each a slip of the pen away from it.
RECURSIVE FillVariant(_, _, _, _, _, _)
FillVariant(buffer, bufIndex, to, n, i, variant) ==
    IF i >= verticesPerChar THEN buffer
    ELSE LET from == IF variant = "first slot"
                     THEN buffer[bufIndex + 1]
                     ELSE buffer[bufIndex + 2 * i + 1]
             wraps == IF variant = "raw compare" THEN to < from
                      ELSE IF variant = "no wrap" THEN FALSE
                      ELSE Floor(to) < Floor(from)
             wrapped == IF variant = "wrap floor" THEN Whole(Floor(from) - n)
                        ELSE IF variant = "wrap short" THEN from - Whole(n - 1)
                        ELSE from - Whole(n)
             b1 == [buffer EXCEPT ![bufIndex + 2 * i] =
                        IF wraps THEN wrapped ELSE from]
             b2 == [b1 EXCEPT ![bufIndex + 2 * i + 1] = to]
         IN  FillVariant(b2, bufIndex, to, n, i + 1, variant)

\* Every vertex after the first takes `from` from the first vertex's slot.
fillCharBufferFirstSlot(buffer, bufIndex, to, n) ==
    FillVariant(buffer, bufIndex, to, n, 0, "first slot")
\* The comparison is made on the values, not on their floors.
fillCharBufferRawCompare(buffer, bufIndex, to, n) ==
    FillVariant(buffer, bufIndex, to, n, 0, "raw compare")
\* No wrap-around.
fillCharBufferNoWrap(buffer, bufIndex, to, n) ==
    FillVariant(buffer, bufIndex, to, n, 0, "no wrap")
\* The wrapped `from` is the floored previous target less the glyph count.
fillCharBufferWrapFloor(buffer, bufIndex, to, n) ==
    FillVariant(buffer, bufIndex, to, n, 0, "wrap floor")
\* The wrap subtracts the blank's index, not the glyph count.
fillCharBufferWrapShort(buffer, bufIndex, to, n) ==
    FillVariant(buffer, bufIndex, to, n, 0, "wrap short")

\* fillCharBuffer's loop from vertex i on.
RECURSIVE FillLoop(_, _, _, _, _)
FillLoop(buffer, bufIndex, to, n, i) ==
    IF i >= verticesPerChar THEN buffer
    ELSE LET from == buffer[bufIndex + 2 * i + 1]
             b1 == [buffer EXCEPT ![bufIndex + 2 * i] =
                        IF Floor(to) < Floor(from) THEN from - Whole(n) ELSE from]
             b2 == [b1 EXCEPT ![bufIndex + 2 * i + 1] = to]
         IN  FillLoop(b2, bufIndex, to, n, i + 1)

\* fillCharBuffer(to) at bufIndex; n is self.chars.length.
fillCharBuffer(buffer, bufIndex, to, n) == FillLoop(buffer, bufIndex, to, n, 0)

\* msg[j] || ""
RowOrEmpty(msg, j) == IF j < Len(msg) THEN msg[j + 1] ELSE <<>>

\* The row is not put in upper case.
TargetCharNoUpper(glyphs, msg, j, i) ==
    LET msgRow == RowOrEmpty(msg, j)
        k == IF i < Len(msgRow) THEN indexOf(glyphs, msgRow[i + 1]) ELSE -1
    IN  IF i < Len(msgRow) /\ k # -1 THEN k ELSE Len(glyphs) - 1

\* The glyph index setMessage picks for row j, column i (lines 186-194).
TargetChar(glyphs, msg, j, i) ==
    LET msgRow == toUpperCase(RowOrEmpty(msg, j))
        k == IF i < Len(msgRow) THEN indexOf(glyphs, msgRow[i + 1]) ELSE -1
    IN  IF i < Len(msgRow) /\ k # -1 THEN k ELSE Len(glyphs) - 1

\* setMessage's two loops from cell number `cell` (row-major) on; jit[cell]
\* is the cell's Math.random() * 0.1.
RECURSIVE MessageLoop(_, _, _, _, _, _, _)
MessageLoop(buffer, glyphs, r, c, msg, jit, cell) ==
    IF cell >= r * c THEN buffer
    ELSE LET j == cell \div c
             i == cell % c
             to == Whole(TargetChar(glyphs, msg, j, i)) + jit[cell]
         IN  MessageLoop(
                 fillCharBuffer(buffer, 2 * verticesPerChar * cell, to, Len(glyphs)),
                 glyphs, r, c, msg, jit, cell + 1)

JitterDraws == [0..(rows * cols - 1) -> Jitters]

\* setMessage(msg) with the jitter draws jit.
SetMessageTo(msg, jit) ==
    /\ charBuffer' = MessageLoop(charBuffer, chars, rows, cols, msg, jit, 0)
    /\ charBufferDirty' = TRUE
    /\ lastCall' = "setMessage"
    /\ uploaded' = FALSE
    /\ lastMsg' = msg
    /\ pending' = IF pending = 0 THEN 1 ELSE 2
    /\ UNCHANGED <<chars, rows, cols, timing, charBufferObject, quad>>

\* setMessage with a message that fits the board.
SetMessage ==
    \E msg \in BoardMessages(chars, rows, cols), jit \in JitterDraws :
        /\ SetMessageTo(msg, jit)
        /\ UNCHANGED twinBuffer

\* setMessage with a message of any shape, as the first call on a new board.
SetFirstMessage ==
    /\ lastCall = "new"
    /\ \E msg \in AnyMessages(rows, cols), jit \in JitterDraws :
        /\ SetMessageTo(msg, jit)
        /\ UNCHANGED twinBuffer

\* setMessage(msg) on two boards of the same configuration, each with its
\* own jitter draws.
SetMessageOnBoth ==
    \E msg \in BoardMessages(chars, rows, cols), jit \in JitterDraws,
       twinJit \in JitterDraws :
        /\ SetMessageTo(msg, jit)
        /\ twinBuffer' = MessageLoop(twinBuffer, chars, rows, cols, msg, twinJit, 0)

\* ------------------------------------------------------------------ update

\* The upload is made and the flag is left set.
UpdateKeepDirty(time) ==
    /\ timing' = IF timing < Len(chars) * 1000
                 THEN timing + time * speed ELSE timing
    /\ IF charBufferDirty
       THEN /\ charBufferObject' = Float32Array(charBuffer)
            /\ uploaded' = TRUE
       ELSE /\ UNCHANGED charBufferObject
            /\ uploaded' = FALSE
    /\ lastCall' = "update"
    /\ pending' = 0
    /\ UNCHANGED <<chars, rows, cols, charBuffer, charBufferDirty, lastMsg,
                   twinBuffer, quad>>

\* The flag is cleared and no upload is made.
UpdateClearOnly(time) ==
    /\ timing' = IF timing < Len(chars) * 1000
                 THEN timing + time * speed ELSE timing
    /\ charBufferDirty' = FALSE
    /\ uploaded' = FALSE
    /\ lastCall' = "update"
    /\ pending' = 0
    /\ UNCHANGED <<chars, rows, cols, charBuffer, charBufferObject, lastMsg,
                   twinBuffer, quad>>

\* update(time, gl)
UpdateBy(time) ==
    /\ timing' = IF timing < Len(chars) * 1000
                 THEN timing + time * speed ELSE timing
    /\ IF charBufferDirty
       THEN /\ charBufferObject' = Float32Array(charBuffer)
            /\ charBufferDirty' = FALSE
            /\ uploaded' = TRUE
       ELSE /\ UNCHANGED <<charBufferObject, charBufferDirty>>
            /\ uploaded' = FALSE
    /\ lastCall' = "update"
    /\ pending' = 0
    /\ UNCHANGED <<chars, rows, cols, charBuffer, lastMsg, twinBuffer, quad>>

Update == \E time \in ElapsedTimes : UpdateBy(time)

\* -------------------------------------------------------------------- draw

\* draw(gl): one drawElements call; no buffer is written.
Draw ==
    /\ lastCall' = "draw"
    /\ uploaded' = FALSE
    /\ UNCHANGED <<chars, rows, cols, timing, charBuffer, charBufferDirty,
                   charBufferObject, lastMsg, pending, twinBuffer, quad>>

\* ---------------------------------------------------------------- geometry

\* addFaceIndices(arr, a, b, c, d): what it pushes.
addFaceIndices(a, b, c, d) == <<c, d, a, c, a, b>>

\* setupCharHalf(x, y, u, v, i, animated, flipped): the indices it pushes.
setupCharHalf(i, flipped) ==
    IF flipped THEN addFaceIndices(i + 3, i + 2, i + 1, i + 0)
    ELSE addFaceIndices(i + 0, i + 1, i + 2, i + 3)

\* The indices one pass of the inner loop (lines 150-154) pushes.
CellIndices(index) ==
    setupCharHalf(index, FALSE) \o setupCharHalf(index + 4, FALSE)
        \o setupCharHalf(index + 8, FALSE) \o setupCharHalf(index + 12, TRUE)

\* new Uint16Array(indexBuffer), one cell's part of it.
Uint16Array(indices) == [k \in DOMAIN indices |-> Uint16(indices[k])]

\* _buildBuffers on an r x c grid, at the pass of the loops for cell number
\* `cell` (row-major): `index` has been advanced by verticesPerChar once per
\* earlier cell; and the part of the element buffer uploaded for the cell.
\* One cell of one grid is built in a run (quad = NoQuad before it).
BuildCell ==
    /\ quad = NoQuad
    /\ \E g \in GeometryGrids :
        \E cell \in 0..(g[1] * g[2] - 1) :
            LET index == verticesPerChar * cell
            IN  quad' = [rows |-> g[1], cols |-> g[2], cell |-> cell,
                         index |-> index, indices |-> CellIndices(index),
                         elements |-> Uint16Array(CellIndices(index))]
    /\ UNCHANGED <<chars, rows, cols, timing, charBuffer, charBufferDirty,
                   charBufferObject, lastCall, uploaded, lastMsg, pending,
                   twinBuffer>>

\* ---------------------------------------------------------- specifications

Next == SetMessage \/ Update \/ Draw

Spec == Init /\ [][Next]_vars

\* Messages of any shape: the first message is any message, the later ones
\* fit the board.
InitMsg == InitOn(MessageBoards)

NextMsg == SetFirstMessage \/ SetMessage

SpecMsg == InitMsg /\ [][NextMsg]_vars

\* Two boards given the same messages.
NextTwin == SetMessageOnBoth

SpecTwin == Init /\ [][NextTwin]_vars

\* The geometry builder, one cell of one grid.
NextGeom == BuildCell

SpecGeom == Init /\ [][NextGeom]_vars

\* ------------------------------------------------------------------ claims

Cells == 0..(rows * cols - 1)
Vertices == 0..(verticesPerChar - 1)
GlyphCount == Len(chars)
Blank == Len(chars) - 1

\* The `from` and the `to` slot of vertex v of a cell.
FromAt(buffer, cell, v) == buffer[2 * verticesPerChar * cell + 2 * v]
ToAt(buffer, cell, v) == buffer[2 * verticesPerChar * cell + 2 * v + 1]

\* C1: in every reachable state, the 16 vertex slots of every cell of the
\* character buffer hold one and the same (from, to) pair.
C1_CellsUniform ==
    \A cell \in Cells : \A v \in Vertices :
        /\ FromAt(charBuffer, cell, v) = FromAt(charBuffer, cell, 0)
        /\ ToAt(charBuffer, cell, v) = ToAt(charBuffer, cell, 0)

\* A two-cell board after setMessage, its second cell flipped back to a
\* lower glyph (a wrapped `from`) and its first cell showing a glyph.
C1_Witness ==
    /\ lastCall = "setMessage"
    /\ rows * cols = 2
    /\ FromAt(charBuffer, 1, 0) < 0
    /\ Floor(ToAt(charBuffer, 0, 0)) # Blank

\* The glyph index of a character: its place in the glyph list, the blank's
\* when it is no glyph.
GlyphOf(ch) ==
    IF \E k \in 1..Len(chars) : chars[k] = ch
    THEN (CHOOSE k \in 1..Len(chars) : chars[k] = ch) - 1
    ELSE Blank

\* C2 as stated: the target of cell (j, i) is the glyph of the upper case of
\* the character lines[j][i], the blank when there is no such character.
ClaimedGlyph(msg, j, i) ==
    IF j < Len(msg) /\ i < Len(msg[j + 1])
    THEN LET up == UpperOf(msg[j + 1][i + 1])
         IN  IF Len(up) = 1 THEN GlyphOf(up[1]) ELSE Blank
    ELSE Blank

\* C2 (as stated): after setMessage(lines), for every row j and column i the
\* floor of the cell's `to` is the glyph index of the upper case of the
\* character lines[j][i], and the blank's index when row j or column i of it
\* does not exist or the character is no glyph.
C2_TargetsAsClaimed ==
    lastCall = "setMessage" =>
        \A cell \in Cells : \A v \in Vertices :
            Floor(ToAt(charBuffer, cell, v))
                = ClaimedGlyph(lastMsg, cell \div cols, cell % cols)

\* The glyph of column i of the upper case of line j.
ColumnGlyph(msg, j, i) ==
    IF j < Len(msg) /\ i < Len(toUpperCase(msg[j + 1]))
    THEN GlyphOf(toUpperCase(msg[j + 1])[i + 1])
    ELSE Blank

\* C2 (amended): after setMessage(lines), for every row j and column i the
\* floor of the cell's `to` is the glyph index of the character at column i
\* of the upper case of line j, and the blank's index when line j does not
\* exist, its upper case has no column i or that character is no glyph.
C2_TargetsByColumn ==
    lastCall = "setMessage" =>
        \A cell \in Cells : \A v \in Vertices :
            Floor(ToAt(charBuffer, cell, v))
                = ColumnGlyph(lastMsg, cell \div cols, cell % cols)

\* A one-row board given two lines, the first longer than the row, in lower
\* case and starting with a character that is no glyph.
C2_Witness ==
    /\ lastCall = "setMessage"
    /\ rows = 1 /\ cols = 2
    /\ lastMsg = << <<"#", "a", "a">>, <<"a">> >>
    /\ Floor(ToAt(charBuffer, 0, 0)) = Blank
    /\ Floor(ToAt(charBuffer, 1, 0)) = 0

\* C3 (as stated): when setMessage gives a cell a target whose floor is
\* below the floor g_prev of its previous target, the cell's new `from` is
\* g_prev - glyphCount exactly.
C3_WrapIsFlooredTarget ==
    [][lastCall' = "setMessage" =>
        \A cell \in Cells : \A v \in Vertices :
            Floor(ToAt(charBuffer', cell, v)) < Floor(ToAt(charBuffer, cell, v))
                => FromAt(charBuffer', cell, v)
                       = Whole(Floor(ToAt(charBuffer, cell, v)) - GlyphCount)]_vars

\* C3 (amended): in that case the cell's new `from` is its previous `to`
\* less glyphCount, jitter included: its floor is g_prev - glyphCount.
C3_WrapIsPreviousTarget ==
    [][lastCall' = "setMessage" =>
        \A cell \in Cells : \A v \in Vertices :
            Floor(ToAt(charBuffer', cell, v)) < Floor(ToAt(charBuffer, cell, v))
                => /\ FromAt(charBuffer', cell, v)
                          = ToAt(charBuffer, cell, v) - Whole(GlyphCount)
                   /\ Floor(FromAt(charBuffer', cell, v))
                          = Floor(ToAt(charBuffer, cell, v)) - GlyphCount]_vars

\* A cell wrapped from a previous target that carried jitter.
C3_Witness ==
    /\ lastCall = "setMessage"
    /\ \E cell \in Cells :
        /\ FromAt(charBuffer, cell, 0) < 0
        /\ FromAt(charBuffer, cell, 0) % Scale # 0

\* C4: timing never exceeds the glyph-set length.
C4_TimingCapped == timing <= Len(chars) * 1000

C6_CleanMeansEqual ==
    /\ ~charBufferDirty => charBufferObject = charBuffer
    /\ pending > 0 => charBufferDirty

\* C6 (amended): whenever the dirty flag is false the device buffer is the
\* Float32 conversion of the in-memory buffer; the flag is true from every
\* setMessage until the next update.
C6_CleanMeansUploaded ==
    /\ ~charBufferDirty => charBufferObject = Float32Array(charBuffer)
    /\ pending > 0 => charBufferDirty

\* A clean board whose buffer holds a value that Float32 does not.
C6_Witness ==
    /\ ~charBufferDirty
    /\ lastCall = "update"
    /\ uploaded
    /\ charBufferObject # charBuffer

\* C7 (as stated): every cell's `from` is at most its `to`.
C7_FromAtMostTo ==
    \A cell \in Cells : \A v \in Vertices :
        FromAt(charBuffer, cell, v) <= ToAt(charBuffer, cell, v)

\* C7 (amended): the floor of every cell's `from` is at most the floor of
\* its `to`.
C7_FromGlyphAtMostToGlyph ==
    \A cell \in Cells : \A v \in Vertices :
        Floor(FromAt(charBuffer, cell, v)) <= Floor(ToAt(charBuffer, cell, v))

\* The same glyph set twice, the second time with the smaller jitter.
C7_Witness ==
    /\ lastCall = "setMessage"
    /\ \E cell \in Cells :
        /\ FromAt(charBuffer, cell, 0) > ToAt(charBuffer, cell, 0)
        /\ Floor(FromAt(charBuffer, cell, 0)) = Floor(ToAt(charBuffer, cell, 0))

\* C8: two boards given the same messages hold, in every slot, values of the
\* same floor, whatever their jitter draws.
C8_JitterKeepsGlyphs ==
    \A cell \in Cells : \A v \in Vertices :
        /\ Floor(FromAt(charBuffer, cell, v)) = Floor(FromAt(twinBuffer, cell, v))
        /\ Floor(ToAt(charBuffer, cell, v)) = Floor(ToAt(twinBuffer, cell, v))

\* A cell that wrapped on both boards, from and to values that differ
\* between the boards.
C8_Witness ==
    \E cell \in Cells :
        /\ FromAt(charBuffer, cell, 0) < 0
        /\ FromAt(charBuffer, cell, 0) # FromAt(twinBuffer, cell, 0)
        /\ ToAt(charBuffer, cell, 0) # ToAt(twinBuffer, cell, 0)

Congruent(a, b) == (a - b) % GlyphCount = 0

\* C9 (as stated): at every upload, the floor of each cell's uploaded `from`
\* is congruent modulo glyphCount to the floor of the `to` the device held
\* for the cell before the upload.
C9_UploadContinues ==
    [][(lastCall' = "update" /\ uploaded') =>
        \A cell \in Cells : \A v \in Vertices :
            Congruent(Floor(FromAt(charBufferObject', cell, v)),
                      Floor(ToAt(charBufferObject, cell, v)))]_vars

\* C9 (amended): the same, at every upload that follows exactly one
\* setMessage call since the previous update.
C9_UploadContinuesAfterOne ==
    [][(lastCall' = "update" /\ uploaded' /\ pending = 1) =>
        \A cell \in Cells : \A v \in Vertices :
            Congruent(Floor(FromAt(charBufferObject', cell, v)),
                      Floor(ToAt(charBufferObject, cell, v)))]_vars

\* An upload after one setMessage that wrapped a cell.
C9_Witness ==
    /\ lastCall = "update"
    /\ uploaded
    /\ \E cell \in Cells : FromAt(charBufferObject, cell, 0) < 0

\* C10: every element stored for a cell equals the index generated for it,
\* is below the vertex count and is one of the 4 vertices of its quad.
C10_ElementsAreIndices ==
    quad # NoQuad =>
        \A k \in 1..Len(quad.elements) :
            LET base == quad.index + 4 * ((k - 1) \div 6)
            IN  /\ quad.elements[k] = quad.indices[k]
                /\ quad.elements[k] < verticesPerChar * quad.rows * quad.cols
                /\ quad.elements[k] \in base..(base + 3)

====
